---- MODULE Spec2Model ----
(***************************************************************************)
(* TRMNL integration: the HMAC token manager (token_manager.py) and the    *)
(* two WebSocket commands that use it (websocket/api.py).                  *)
(*                                                                         *)
(* Representation of values.                                               *)
(*   Python values are records tagged by `py'.  A string that is handled   *)
(*   as a token is given by the list of its separator-delimited parts, so  *)
(*   that str.split(TOKEN_SEPARATOR) and the f-string that joins the parts *)
(*   are each other's inverse by construction of the parts (no part holds  *)
(*   a separator).  A part is plain text (Lit), the base64 text of some    *)
(*   bytes (B64Seg), or the hex digest of an HMAC (HexSeg), possibly with  *)
(*   one character replaced.  HMAC-SHA256 is an ideal MAC: the digest is   *)
(*   the pair (padded key, message), equal only for equal pairs.           *)
(*   Time is counted in seconds.                                           *)
(***************************************************************************)
EXTENDS Integers, Sequences, FiniteSets, TLC

VARIABLES now, hassData, configEntries, held, last, pc

vars == <<now, hassData, configEntries, held, last, pc>>

-----------------------------------------------------------------------------
(* const.py *)

TOKEN_TTL_HOURS == 24

TOKEN_ROTATION_THRESHOLD_HOURS == 6

TOKEN_PREFIX == "token"

HASS_DOMAIN == "trmnl"

(* timedelta(hours=h), in seconds *)
Hours(h) == h * 3600

-----------------------------------------------------------------------------
(* Python values *)

PyNone == [py |-> "None"]

PyStr(s) == [py |-> "str", s |-> s]

PyInt(n) == [py |-> "int", n |-> n]

PyBool(b) == [py |-> "bool", b |-> b]

(* the str whose separator-delimited parts are `parts' *)
PyTok(parts) == [py |-> "str", parts |-> parts]

(* the str that datetime.isoformat() gives for the instant t; aware: with a *)
(* UTC offset                                                               *)
PyIso(t, aware) == [py |-> "str", iso |-> t, aware |-> aware]

PyDict(f) == [py |-> "dict", f |-> f]

PyList == [py |-> "list"]

IsStr(v) == v.py = "str"

(* the str made of the characters `chars' (used where single characters    *)
(* matter: the HMAC key)                                                    *)
PyChars(chars) == [py |-> "str", chars |-> chars]

IsEmptyStr(v) ==
    /\ v.py = "str"
    /\ \/ ("s" \in DOMAIN v /\ v.s = "")
       \/ ("chars" \in DOMAIN v /\ v.chars = <<>>)
       \/ ("parts" \in DOMAIN v /\ v.parts = <<[k |-> "lit", s |-> ""]>>)

(* Python truth value: `not v' is ~Truthy(v) *)
Truthy(v) ==
    CASE v.py = "None" -> FALSE
      [] v.py = "str" -> ~IsEmptyStr(v)
      [] v.py = "int" -> v.n # 0
      [] v.py = "bool" -> v.b
      [] v.py = "dict" -> DOMAIN v.f # {}
      [] OTHER -> TRUE

-----------------------------------------------------------------------------
(* Parts of a token string *)

Lit(s) == [k |-> "lit", s |-> s]

B64Seg(bytes) == [k |-> "b64", c |-> bytes]

NoEdit == [pos |-> 0, ch |-> "none"]

(* hex digest of HMAC(key, msg); edit: one character replaced by another *)
HexSeg(key, msg, edit) == [k |-> "hex", key |-> key, msg |-> msg, edit |-> edit]

(* characters from..to of the hex digest of HMAC(key, msg) *)
HexFrag(key, msg, from, to) ==
    [k |-> "hexfrag", key |-> key, msg |-> msg, from |-> from, to |-> to]

(* hashlib.sha256: block size in bytes, and length of hexdigest() *)
BlockSize == 64

DigestLen == 64

IsAscii(seg) == ~(seg.k = "hex" /\ seg.edit.ch = "nonascii")

-----------------------------------------------------------------------------
(* Bytes and JSON text *)

(* the UTF-8 bytes of the JSON text of value v *)
JsonBytes(v) == [k |-> "json", v |-> v]

NotJsonBytes == [k |-> "notjson"]

NotUtf8Bytes == [k |-> "notutf8"]

JObj(f) == [j |-> "obj", f |-> f]

JStr(s) == [j |-> "str", s |-> s]

JIso(t, aware) == [j |-> "str", iso |-> t, aware |-> aware]

JNum(n) == [j |-> "num", n |-> n]

JArr == [j |-> "arr"]

JNull == [j |-> "null"]

(* json.dumps of None, an int or a str *)
ToJScalar(v) ==
    CASE v.py = "None" -> JNull
      [] v.py = "int" -> JNum(v.n)
      [] v.py = "str" /\ "iso" \in DOMAIN v -> JIso(v.iso, v.aware)
      [] OTHER -> JStr(v.s)

(* json.dumps of a scalar or of a dict of scalars *)
ToJ(v) ==
    IF v.py = "dict"
    THEN JObj([key \in DOMAIN v.f |-> ToJScalar(v.f[key])])
    ELSE ToJScalar(v)

json_dumps(v) == JsonBytes(ToJ(v))

FromJScalar(x) ==
    CASE x.j = "str" /\ "iso" \in DOMAIN x -> PyIso(x.iso, x.aware)
      [] x.j = "str" /\ "s" \in DOMAIN x -> PyStr(x.s)
      [] x.j = "num" -> PyInt(x.n)
      [] x.j = "null" -> PyNone
      [] OTHER -> PyList

(* json.loads of a JSON text *)
FromJ(x) ==
    IF x.j = "obj"
    THEN PyDict([key \in DOMAIN x.f |-> FromJScalar(x.f[key])])
    ELSE FromJScalar(x)

-----------------------------------------------------------------------------
(* Outcome of a call: a returned value or a raised exception *)

Return(v) == [exc |-> "none", msg |-> "", val |-> v]

Raise(e, m) == [exc |-> e, msg |-> m, val |-> PyNone]

Raised(r) == r.exc # "none"

(* base64.b64decode(seg): non-alphabet characters are discarded, wrong     *)
(* padding raises binascii.Error, a ValueError                             *)
b64decode(seg) ==
    CASE seg.k = "b64" -> Return(seg.c)
      [] seg.k = "lit" /\ seg.s = "" -> Return(NotJsonBytes)
      [] seg.k = "lit" /\ seg.s # "" -> Raise("ValueError", "Incorrect padding")
      [] seg.k = "hex" /\ ~IsAscii(seg) ->
            Raise("ValueError", "string argument should contain only ASCII characters")
      [] seg.k = "hex" /\ IsAscii(seg) -> Return(NotUtf8Bytes)
      [] OTHER -> Raise("ValueError", "Incorrect padding")

(* base64.b64decode(payload_b64).decode() followed by json.loads(...) *)
DecodePayload(seg) ==
    LET raw == b64decode(seg) IN
    IF Raised(raw) THEN raw
    ELSE IF raw.val.k = "notutf8"
         THEN Raise("ValueError", "'utf-8' codec can't decode byte")
    ELSE IF raw.val.k = "notjson"
         THEN Raise("ValueError", "Expecting value: line 1 column 1 (char 0)")
    ELSE Return(FromJ(raw.val.v))

(* the except clause of the three parsing methods: ValueError, KeyError and *)
(* json.JSONDecodeError (a ValueError) become InvalidTokenError             *)
WrapFormat(r) ==
    IF r.exc \in {"ValueError", "KeyError"}
    THEN Raise("InvalidTokenError", "Invalid token format: " \o r.msg)
    ELSE r

(* payload_data["expires_at"] *)
Subscript(payload_data, key) ==
    IF payload_data.py # "dict"
    THEN Raise("TypeError", "object is not subscriptable")
    ELSE IF key \notin DOMAIN payload_data.f
    THEN Raise("KeyError", "'" \o key \o "'")
    ELSE Return(payload_data.f[key])

(* payload_data.get(key) *)
DictGet(payload_data, key) ==
    IF payload_data.py # "dict"
    THEN Raise("AttributeError", "object has no attribute 'get'")
    ELSE IF key \notin DOMAIN payload_data.f
    THEN Return(PyNone)
    ELSE Return(payload_data.f[key])

(* datetime.fromisoformat(v): the value is the parsed text itself *)
fromisoformat(v) ==
    IF v.py # "str"
    THEN Raise("TypeError", "fromisoformat: argument must be str")
    ELSE IF "iso" \notin DOMAIN v
    THEN Raise("ValueError", "Invalid isoformat string")
    ELSE Return(v)

-----------------------------------------------------------------------------
(* TokenManager (token_manager.py) *)

NUL == "NUL"

RECURSIVE StripNul(_)
(* chars without its trailing NUL characters *)
StripNul(chars) ==
    IF chars # <<>> /\ chars[Len(chars)] = NUL
    THEN StripNul(SubSeq(chars, 1, Len(chars) - 1))
    ELSE chars

(* the key HMAC works with: a key longer than the block size is replaced by *)
(* its hash, a shorter one is padded with NUL bytes to the block size.  Two *)
(* padded keys are equal exactly when the keys are equal up to trailing NUL *)
(* characters, so the padded key is given by the key without them.          *)
HmacKey(chars) ==
    IF Len(chars) > BlockSize
    THEN [hashed |-> TRUE, k |-> chars]
    ELSE [hashed |-> FALSE, k |-> StripNul(chars)]

(* TokenManager.__init__: None when the constructor raises ValueError,      *)
(* otherwise the manager, which is its secret                               *)
NoManager == PyNone

TokenManager(token_secret) ==
    IF ~Truthy(token_secret) \/ ~IsStr(token_secret)
    THEN NoManager
    ELSE token_secret

(* TokenManager(token_secret) as a call: the manager, or the ValueError *)
NewTokenManager(token_secret) ==
    IF TokenManager(token_secret) = NoManager
    THEN Raise("ValueError", "token_secret must be a non-empty string")
    ELSE Return(TokenManager(token_secret))

(* TokenManager._generate_signature *)
GenerateSignature(secret, payload) ==
    HexSeg(HmacKey(secret.chars), payload, NoEdit)

(* a comparison that finds every two ASCII strings equal *)
compare_digestAlwaysEqual(a, b) ==
    IF ~IsAscii(a) \/ ~IsAscii(b)
    THEN Raise("TypeError", "comparing strings with non-ASCII characters is not supported")
    ELSE Return(PyBool(TRUE))

(* hmac.compare_digest on two str *)
compare_digest(a, b) ==
    IF ~IsAscii(a) \/ ~IsAscii(b)
    THEN Raise("TypeError", "comparing strings with non-ASCII characters is not supported")
    ELSE Return(PyBool(a = b))

b64encode(bytes) == B64Seg(bytes)

(* generate_token signing the JSON text instead of its base64 encoding *)
GenerateTokenSigningJson(secret, device_id, t1, t2) ==
    IF ~Truthy(device_id) \/ ~IsStr(device_id)
    THEN Raise("ValueError", "device_id must be a non-empty string")
    ELSE LET expires_at == t1 + Hours(TOKEN_TTL_HOURS)
             payload_data == PyDict([device_id |-> device_id,
                                     expires_at |-> PyIso(expires_at, TRUE),
                                     issued_at |-> PyIso(t2, TRUE)])
             payload_json == json_dumps(payload_data)
             signature == GenerateSignature(secret, payload_json)
         IN Return(PyTok(<<Lit(TOKEN_PREFIX), b64encode(payload_json), signature>>))

(* generate_token writing its timestamps to the hour *)
GenerateTokenHourStamps(secret, device_id, t1, t2) ==
    IF ~Truthy(device_id) \/ ~IsStr(device_id)
    THEN Raise("ValueError", "device_id must be a non-empty string")
    ELSE LET expires_at == (t1 \div 3600) * 3600 + Hours(TOKEN_TTL_HOURS)
             payload_data == PyDict([device_id |-> device_id,
                                     expires_at |-> PyIso(expires_at, TRUE),
                                     issued_at |-> PyIso((t2 \div 3600) * 3600, TRUE)])
             payload_b64 == b64encode(json_dumps(payload_data))
             signature == GenerateSignature(secret, payload_b64)
         IN Return(PyTok(<<Lit(TOKEN_PREFIX), payload_b64, signature>>))

(* generate_token without the test of device_id *)
GenerateTokenUnchecked(secret, device_id, t1, t2) ==
    LET expires_at == t1 + Hours(TOKEN_TTL_HOURS)
        payload_data == PyDict([device_id |-> device_id,
                                expires_at |-> PyIso(expires_at, TRUE),
                                issued_at |-> PyIso(t2, TRUE)])
        payload_b64 == b64encode(json_dumps(payload_data))
        signature == GenerateSignature(secret, payload_b64)
    IN Return(PyTok(<<Lit(TOKEN_PREFIX), payload_b64, signature>>))

(* generate_token of a manager that stores the token it issued for         *)
(* device_1 and hands it out again                                          *)
GenerateTokenReissuing(secret, device_id, t1, t2) ==
    IF ~Truthy(device_id) \/ ~IsStr(device_id)
    THEN Raise("ValueError", "device_id must be a non-empty string")
    ELSE IF held.token # PyNone /\ held.secret = secret /\ device_id = PyStr("device_1")
    THEN Return(held.token)
    ELSE LET expires_at == t1 + Hours(TOKEN_TTL_HOURS)
             payload_data == PyDict([device_id |-> device_id,
                                     expires_at |-> PyIso(expires_at, TRUE),
                                     issued_at |-> PyIso(t2, TRUE)])
             payload_b64 == b64encode(json_dumps(payload_data))
             signature == GenerateSignature(secret, payload_b64)
         IN Return(PyTok(<<Lit(TOKEN_PREFIX), payload_b64, signature>>))

(* generate_token with the device_id itself as the payload segment *)
GenerateTokenRawDevice(secret, device_id, t1, t2) ==
    IF ~Truthy(device_id) \/ ~IsStr(device_id)
    THEN Raise("ValueError", "device_id must be a non-empty string")
    ELSE LET payload == Lit(device_id.s)
             signature == GenerateSignature(secret, payload)
         IN Return(PyTok(<<Lit(TOKEN_PREFIX), payload, signature>>))

(* TokenManager.generate_token; t1 and t2 are the two readings of the clock *)
GenerateToken(secret, device_id, t1, t2) ==
    IF ~Truthy(device_id) \/ ~IsStr(device_id)
    THEN Raise("ValueError", "device_id must be a non-empty string")
    ELSE LET expires_at == t1 + Hours(TOKEN_TTL_HOURS)
             payload_data == PyDict([device_id |-> device_id,
                                     expires_at |-> PyIso(expires_at, TRUE),
                                     issued_at |-> PyIso(t2, TRUE)])
             payload_b64 == b64encode(json_dumps(payload_data))
             signature == GenerateSignature(secret, payload_b64)
         IN Return(PyTok(<<Lit(TOKEN_PREFIX), payload_b64, signature>>))

(* the expiry test with > in place of >= *)
CheckExpirationStrictlyAfter(payload_data, t) ==
    LET field == Subscript(payload_data, "expires_at") IN
    IF Raised(field) THEN field
    ELSE LET expires_at == fromisoformat(field.val) IN
         IF Raised(expires_at) THEN expires_at
         ELSE IF ~expires_at.val.aware
         THEN Raise("TypeError", "can't compare offset-naive and offset-aware datetimes")
         ELSE IF t > expires_at.val.iso
         THEN Raise("InvalidTokenError", "Token has expired")
         ELSE Return(PyBool(TRUE))

(* the expiry test that parses expires_at and never rejects *)
CheckExpirationNever(payload_data, t) ==
    LET field == Subscript(payload_data, "expires_at") IN
    IF Raised(field) THEN field
    ELSE LET expires_at == fromisoformat(field.val) IN
         IF Raised(expires_at) THEN expires_at
         ELSE IF ~expires_at.val.aware
         THEN Raise("TypeError", "can't compare offset-naive and offset-aware datetimes")
         ELSE Return(PyBool(TRUE))

(* the expiry test of validate_token, once the payload is parsed *)
CheckExpiration(payload_data, t) ==
    LET field == Subscript(payload_data, "expires_at") IN
    IF Raised(field) THEN field
    ELSE LET expires_at == fromisoformat(field.val) IN
         IF Raised(expires_at) THEN expires_at
         ELSE IF ~expires_at.val.aware
         THEN Raise("TypeError", "can't compare offset-naive and offset-aware datetimes")
         ELSE IF t >= expires_at.val.iso
         THEN Raise("InvalidTokenError", "Token has expired")
         ELSE Return(PyBool(TRUE))

(* validate_token comparing the signature before it looks at the prefix *)
ValidateTokenSignatureFirst(secret, token, t) ==
    IF ~Truthy(token) \/ ~IsStr(token)
    THEN Raise("InvalidTokenError", "Token must be a non-empty string")
    ELSE LET parts == token.parts IN
         IF Len(parts) # 3
         THEN Raise("InvalidTokenError", "Invalid token format")
         ELSE LET same == compare_digest(parts[3], GenerateSignature(secret, parts[2])) IN
              IF Raised(same) THEN same
              ELSE IF ~same.val.b
              THEN Raise("InvalidTokenError", "Invalid token signature")
              ELSE IF parts[1] # Lit(TOKEN_PREFIX)
              THEN Raise("InvalidTokenError", "Invalid token prefix")
              ELSE LET payload_data == DecodePayload(parts[2]) IN
                   IF Raised(payload_data) THEN WrapFormat(payload_data)
                   ELSE WrapFormat(CheckExpiration(payload_data.val, t))

(* TokenManager.validate_token at clock reading t *)
ValidateToken(secret, token, t) ==
    IF ~Truthy(token) \/ ~IsStr(token)
    THEN Raise("InvalidTokenError", "Token must be a non-empty string")
    ELSE LET parts == token.parts IN
         IF Len(parts) # 3
         THEN Raise("InvalidTokenError", "Invalid token format")
         ELSE IF parts[1] # Lit(TOKEN_PREFIX)
         THEN Raise("InvalidTokenError", "Invalid token prefix")
         ELSE LET same == compare_digest(parts[3], GenerateSignature(secret, parts[2])) IN
              IF Raised(same) THEN same
              ELSE IF ~same.val.b
              THEN Raise("InvalidTokenError", "Invalid token signature")
              ELSE LET payload_data == DecodePayload(parts[2]) IN
                   IF Raised(payload_data) THEN WrapFormat(payload_data)
                   ELSE WrapFormat(CheckExpiration(payload_data.val, t))

(* the threshold test asking for rotation only once the token has expired *)
CheckRotationOnceExpired(payload_data, t) ==
    LET field == Subscript(payload_data, "expires_at") IN
    IF Raised(field) THEN field
    ELSE LET expires_at == fromisoformat(field.val) IN
         IF Raised(expires_at) THEN expires_at
         ELSE IF ~expires_at.val.aware
         THEN Raise("TypeError", "can't compare offset-naive and offset-aware datetimes")
         ELSE Return(PyBool(expires_at.val.iso <= t))

(* the threshold test with < in place of <= *)
CheckRotationStrictlyBefore(payload_data, t) ==
    LET field == Subscript(payload_data, "expires_at") IN
    IF Raised(field) THEN field
    ELSE LET expires_at == fromisoformat(field.val) IN
         IF Raised(expires_at) THEN expires_at
         ELSE IF ~expires_at.val.aware
         THEN Raise("TypeError", "can't compare offset-naive and offset-aware datetimes")
         ELSE Return(PyBool(expires_at.val.iso < t + Hours(TOKEN_ROTATION_THRESHOLD_HOURS)))

(* the threshold test of should_rotate_token, once the payload is parsed *)
CheckRotation(payload_data, t) ==
    LET field == Subscript(payload_data, "expires_at") IN
    IF Raised(field) THEN field
    ELSE LET expires_at == fromisoformat(field.val) IN
         IF Raised(expires_at) THEN expires_at
         ELSE IF ~expires_at.val.aware
         THEN Raise("TypeError", "can't compare offset-naive and offset-aware datetimes")
         ELSE Return(PyBool(expires_at.val.iso <= t + Hours(TOKEN_ROTATION_THRESHOLD_HOURS)))

(* should_rotate_token verifying the prefix, the signature and the expiry   *)
(* as validate_token does before it applies the threshold                   *)
ShouldRotateTokenVerifying(secret, token, t) ==
    IF Raised(ValidateToken(secret, token, t))
    THEN ValidateToken(secret, token, t)
    ELSE WrapFormat(CheckRotation(DecodePayload(token.parts[2]).val, t))

(* TokenManager.should_rotate_token at clock reading t *)
ShouldRotateToken(secret, token, t) ==
    IF ~Truthy(token) \/ ~IsStr(token)
    THEN Raise("InvalidTokenError", "Token must be a non-empty string")
    ELSE LET parts == token.parts IN
         IF Len(parts) # 3
         THEN Raise("InvalidTokenError", "Invalid token format")
         ELSE LET payload_data == DecodePayload(parts[2]) IN
              IF Raised(payload_data) THEN WrapFormat(payload_data)
              ELSE WrapFormat(CheckRotation(payload_data.val, t))

(* the returned dict with issued_at and expires_at taken for each other *)
TokenInfoSwapped(payload_data) ==
    IF payload_data.py # "dict"
    THEN DictGet(payload_data, "device_id")
    ELSE Return(PyDict([device_id |-> DictGet(payload_data, "device_id").val,
                        issued_at |-> DictGet(payload_data, "expires_at").val,
                        expires_at |-> DictGet(payload_data, "issued_at").val]))

(* the returned dict without issued_at *)
TokenInfoWithoutIssuedAt(payload_data) ==
    IF payload_data.py # "dict"
    THEN DictGet(payload_data, "device_id")
    ELSE Return(PyDict([device_id |-> DictGet(payload_data, "device_id").val,
                        expires_at |-> DictGet(payload_data, "expires_at").val]))

(* the dict get_token_info returns, once the payload is parsed *)
TokenInfo(payload_data) ==
    IF payload_data.py # "dict"
    THEN DictGet(payload_data, "device_id")
    ELSE Return(PyDict([device_id |-> DictGet(payload_data, "device_id").val,
                        issued_at |-> DictGet(payload_data, "issued_at").val,
                        expires_at |-> DictGet(payload_data, "expires_at").val]))

(* TokenManager.get_token_info *)
GetTokenInfo(secret, token) ==
    IF ~Truthy(token) \/ ~IsStr(token)
    THEN Raise("InvalidTokenError", "Token must be a non-empty string")
    ELSE LET parts == token.parts IN
         IF Len(parts) # 3
         THEN Raise("InvalidTokenError", "Invalid token format")
         ELSE LET payload_data == DecodePayload(parts[2]) IN
              IF Raised(payload_data) THEN WrapFormat(payload_data)
              ELSE WrapFormat(TokenInfo(payload_data.val))

-----------------------------------------------------------------------------
(* WebSocket commands (websocket/api.py) *)

ERR_INVALID_FORMAT == "invalid_format"

ERR_UNAUTHORIZED == "unauthorized"

(* connection.send_error(msg["id"], code, message) *)
SendError(id, code, message) ==
    [kind |-> "error", id |-> id, code |-> code, message |-> message]

(* connection.send_result(msg["id"], result) *)
SendResult(id, result) == [kind |-> "result", id |-> id, result |-> result]

(* hass.data.get(DOMAIN, {}).get(entry_id, {}) is a non-empty dict *)
HasEntryData(data, entry_id) ==
    /\ IsStr(entry_id)
    /\ entry_id.s \in DOMAIN data

(* a lookup that finds a coordinator for every entry_id *)
GetCoordinatorAlways(data, entry_id) == TRUE

(* _get_coordinator: TRUE when a coordinator is returned, FALSE for None *)
GetCoordinator(data, entry_id) ==
    IF HasEntryData(data, entry_id)
    THEN data[entry_id.s].coordinator
    ELSE FALSE

(* a lookup that replaces the cached manager when the config entry's secret *)
(* is no longer the one it was created with                                 *)
GetTokenManagerRefreshing(data, entries, entry_id) ==
    IF ~(IsStr(entry_id) /\ entry_id.s \in DOMAIN entries) \/ ~HasEntryData(data, entry_id)
    THEN [tm |-> NoManager, data |-> data]
    ELSE LET token_manager == TokenManager(entries[entry_id.s].token_secret) IN
         IF token_manager = NoManager
         THEN [tm |-> NoManager, data |-> data]
         ELSE [tm |-> token_manager,
               data |-> [data EXCEPT ![entry_id.s].token_manager = token_manager]]

(* _get_token_manager: the manager returned (NoManager for None) and        *)
(* hass.data as the call leaves it                                          *)
GetTokenManager(data, entries, entry_id) ==
    IF HasEntryData(data, entry_id) /\ data[entry_id.s].token_manager # NoManager
    THEN [tm |-> data[entry_id.s].token_manager, data |-> data]
    ELSE IF ~(IsStr(entry_id) /\ entry_id.s \in DOMAIN entries)
    THEN [tm |-> NoManager, data |-> data]
    ELSE LET token_secret == entries[entry_id.s].token_secret IN
         IF ~Truthy(token_secret)
         THEN [tm |-> NoManager, data |-> data]
         ELSE LET token_manager == TokenManager(token_secret) IN
              IF token_manager = NoManager \/ ~HasEntryData(data, entry_id)
              THEN [tm |-> NoManager, data |-> data]
              ELSE [tm |-> token_manager,
                    data |-> [data EXCEPT ![entry_id.s].token_manager = token_manager]]

(* what a handler did: the responses it sent, the collaborators it called   *)
(* in order, the manager it used, hass.data as it leaves it, the token it   *)
(* minted, and the arguments it passed to the Updater (NotForwarded if it   *)
(* did not call it)                                                         *)
NotForwarded == [device_id |-> PyNone, image_url |-> PyNone, token |-> PyNone]

Done(sent, calls, tm, data, token, forwarded) ==
    [sent |-> sent, calls |-> calls, tm |-> tm, data |-> data, token |-> token,
     forwarded |-> forwarded]

(* handle_generate_token; t1, t2: the clock readings of generate_token *)
HandleGenerateToken(data, entries, msg, t1, t2) ==
    IF ~Truthy(msg.entry_id) \/ ~Truthy(msg.device_id)
    THEN Done(<<SendError(msg.id, ERR_INVALID_FORMAT, "entry_id and device_id required")>>,
              <<>>, NoManager, data, PyNone, NotForwarded)
    ELSE IF ~GetCoordinator(data, msg.entry_id)
    THEN Done(<<SendError(msg.id, "unauthorized", "No coordinator for this entry")>>,
              <<"_get_coordinator">>, NoManager, data, PyNone, NotForwarded)
    ELSE LET got == GetTokenManager(data, entries, msg.entry_id)
             calls == <<"_get_coordinator", "_get_token_manager">>
         IN
         IF got.tm = NoManager
         THEN Done(<<SendError(msg.id, "internal_error", "No token manager for this entry")>>,
                   calls, NoManager, got.data, PyNone, NotForwarded)
         ELSE LET token == GenerateToken(got.tm, msg.device_id, t1, t2) IN
              IF token.exc = "ValueError"
              THEN Done(<<SendError(msg.id, ERR_INVALID_FORMAT, token.msg)>>,
                        calls \o <<"generate_token">>, got.tm, got.data, PyNone, NotForwarded)
              ELSE LET token_info == GetTokenInfo(got.tm, token.val)
                       calls2 == calls \o <<"generate_token", "get_token_info">>
                   IN
                   IF Raised(token_info)
                   THEN Done(<<SendError(msg.id, "internal_error", token_info.msg)>>,
                             calls2, got.tm, got.data, PyNone, NotForwarded)
                   ELSE Done(<<SendResult(msg.id,
                                  [token |-> token.val,
                                   expires_at |-> DictGet(token_info.val, "expires_at").val])>>,
                             calls2, got.tm, got.data, token.val, NotForwarded)

(* the Updater's results relayed with False answered as an error *)
ForwardUpdateFalseIsError(id, outcome) ==
    CASE outcome = "true" ->
            <<SendResult(id, [success |-> TRUE,
                              message |-> "Screenshot updated successfully"])>>
      [] outcome = "false" ->
            <<SendError(id, "internal_error", "Failed to update screenshot")>>
      [] outcome = "TRMNLAPIError" ->
            <<SendResult(id, [success |-> FALSE, message |-> "API error: failed"])>>
      [] OTHER -> <<SendError(id, "internal_error", "failed")>>

(* the Updater's results relayed by a handler without the outer except:     *)
(* nothing is sent when the Updater raises another exception                *)
ForwardUpdateSilentOnException(id, outcome) ==
    CASE outcome = "true" ->
            <<SendResult(id, [success |-> TRUE,
                              message |-> "Screenshot updated successfully"])>>
      [] outcome = "false" ->
            <<SendResult(id, [success |-> FALSE,
                              message |-> "Failed to update screenshot"])>>
      [] outcome = "TRMNLAPIError" ->
            <<SendResult(id, [success |-> FALSE, message |-> "API error: failed"])>>
      [] OTHER -> <<>>

(* the part of handle_update_screenshot after the token is authorized:      *)
(* outcome is what coordinator.async_update_screenshot does                 *)
ForwardUpdate(id, outcome) ==
    CASE outcome = "true" ->
            <<SendResult(id, [success |-> TRUE,
                              message |-> "Screenshot updated successfully"])>>
      [] outcome = "false" ->
            <<SendResult(id, [success |-> FALSE,
                              message |-> "Failed to update screenshot"])>>
      [] outcome = "TRMNLAPIError" ->
            <<SendResult(id, [success |-> FALSE, message |-> "API error: failed"])>>
      [] OTHER -> <<SendError(id, "internal_error", "failed")>>

(* the required-field test without the token *)
AllRequiredButToken(msg) ==
    /\ Truthy(msg.entry_id)
    /\ Truthy(msg.device_id)
    /\ Truthy(msg.image_url)

(* the required-field test of handle_update_screenshot *)
AllRequired(msg) ==
    /\ Truthy(msg.entry_id)
    /\ Truthy(msg.device_id)
    /\ Truthy(msg.image_url)
    /\ Truthy(msg.token)

(* Authorize with validate_token left out: the payload is read and compared *)
(* without the signature and the expiry being verified                      *)
AuthorizeWithoutValidation(tm, msg, t) ==
    LET token_info == GetTokenInfo(tm, msg.token) IN
    IF Raised(token_info)
    THEN [sent |-> <<SendError(msg.id, "unauthorized", token_info.msg)>>,
          calls |-> <<"get_token_info">>]
    ELSE IF DictGet(token_info.val, "device_id").val # msg.device_id
    THEN [sent |-> <<SendError(msg.id, "unauthorized",
                               "Token is not valid for this device")>>,
          calls |-> <<"get_token_info", "compare_device_id">>]
    ELSE [sent |-> <<>>, calls |-> <<"get_token_info", "compare_device_id">>]

(* Authorize with the device comparison left out *)
AuthorizeWithoutBinding(tm, msg, t) ==
    LET valid == ValidateToken(tm, msg.token, t) IN
    IF valid.exc = "InvalidTokenError"
    THEN [sent |-> <<SendError(msg.id, "unauthorized", valid.msg)>>,
          calls |-> <<"validate_token">>]
    ELSE IF Raised(valid)
    THEN [sent |-> <<SendError(msg.id, "internal_error", valid.msg)>>,
          calls |-> <<"validate_token">>]
    ELSE [sent |-> <<>>,
          calls |-> <<"validate_token", "get_token_info", "compare_device_id">>]

(* the inner try block of handle_update_screenshot: the responses sent      *)
(* (none when the token is authorized) and the calls made                   *)
Authorize(tm, msg, t) ==
    LET valid == ValidateToken(tm, msg.token, t) IN
    IF valid.exc = "InvalidTokenError"
    THEN [sent |-> <<SendError(msg.id, "unauthorized", valid.msg)>>,
          calls |-> <<"validate_token">>]
    ELSE IF Raised(valid)
    THEN [sent |-> <<SendError(msg.id, "internal_error", valid.msg)>>,
          calls |-> <<"validate_token">>]
    ELSE LET token_info == GetTokenInfo(tm, msg.token) IN
         IF token_info.exc = "InvalidTokenError"
         THEN [sent |-> <<SendError(msg.id, "unauthorized", token_info.msg)>>,
               calls |-> <<"validate_token", "get_token_info">>]
         ELSE IF Raised(token_info)
         THEN [sent |-> <<SendError(msg.id, "internal_error", token_info.msg)>>,
               calls |-> <<"validate_token", "get_token_info">>]
         ELSE IF DictGet(token_info.val, "device_id").val # msg.device_id
         THEN [sent |-> <<SendError(msg.id, "unauthorized",
                                    "Token is not valid for this device")>>,
               calls |-> <<"validate_token", "get_token_info", "compare_device_id">>]
         ELSE [sent |-> <<>>,
               calls |-> <<"validate_token", "get_token_info", "compare_device_id">>]

(* handle_update_screenshot at clock reading t *)
HandleUpdateScreenshot(data, entries, msg, t, outcome) ==
    IF ~AllRequired(msg)
    THEN Done(<<SendError(msg.id, ERR_INVALID_FORMAT,
                          "entry_id, device_id, image_url, and token required")>>,
              <<>>, NoManager, data, PyNone, NotForwarded)
    ELSE IF ~GetCoordinator(data, msg.entry_id)
    THEN Done(<<SendError(msg.id, "unauthorized", "No coordinator for this entry")>>,
              <<"_get_coordinator">>, NoManager, data, PyNone, NotForwarded)
    ELSE LET got == GetTokenManager(data, entries, msg.entry_id)
             calls == <<"_get_coordinator", "_get_token_manager">>
         IN
         IF got.tm = NoManager
         THEN Done(<<SendError(msg.id, "internal_error", "No token manager for this entry")>>,
                   calls, NoManager, got.data, PyNone, NotForwarded)
         ELSE LET auth == Authorize(got.tm, msg, t) IN
              IF auth.sent # <<>>
              THEN Done(auth.sent, calls \o auth.calls, got.tm, got.data, PyNone, NotForwarded)
              ELSE Done(ForwardUpdate(msg.id, outcome),
                        calls \o auth.calls \o <<"async_update_screenshot">>,
                        got.tm, got.data, PyNone,
                        [device_id |-> msg.device_id, image_url |-> msg.image_url,
                         token |-> msg.token])

-----------------------------------------------------------------------------
(* Bounds and inputs *)

(* the clock stops here *)
MaxTime == 86500

(* seconds the clock may advance between the two readings of generate_token *)
MaxClockDrift == 1

S1 == PyChars(<<"k", "1">>)

S2 == PyChars(<<"k", "2">>)

(* S1 followed by one NUL character *)
S1Nul == PyChars(<<"k", "1", NUL>>)

(* what a TokenManager is constructed with *)
SecretInputs == {PyNone, PyChars(<<>>), PyInt(12345), S1, S2}

ManagerSecrets == {S1, S2, S1Nul}

Device1 == PyStr("device_1")

Device2 == PyStr("device_2")

ImageUrl == PyStr("https://example.com/image.png")

EmptyTok == PyTok(<<Lit("")>>)

(* entries of hass.data[DOMAIN] and of the config store *)
EntryOk == "entry_ok"

HassEntries ==
    {EntryOk, "entry_nosecret", "entry_emptysecret", "entry_intsecret",
     "entry_noconfig", "entry_nocoord"}

InitialSecret(e) ==
    CASE e = "entry_nosecret" -> PyNone
      [] e = "entry_emptysecret" -> PyChars(<<>>)
      [] e = "entry_intsecret" -> PyInt(12345)
      [] OTHER -> S1

EntryIdInputs ==
    {PyNone, PyStr(""), PyStr("unknown")} \cup {PyStr(e) : e \in HassEntries}

(* a token built as the tests build one: a payload of the builder's choice, *)
(* signed with the secret                                                   *)
CraftToken(secret, bytes) ==
    PyTok(<<Lit(TOKEN_PREFIX), b64encode(bytes),
            GenerateSignature(secret, b64encode(bytes))>>)

Payload(device_id, expires_at, issued_at) ==
    json_dumps(PyDict([device_id |-> device_id, expires_at |-> expires_at,
                       issued_at |-> issued_at]))

(* offsets of the crafted expiry times from the clock *)
CraftOffsets ==
    {-3600, 0, 1, 3600,
     Hours(TOKEN_ROTATION_THRESHOLD_HOURS) - 1,
     Hours(TOKEN_ROTATION_THRESHOLD_HOURS),
     Hours(TOKEN_ROTATION_THRESHOLD_HOURS) + 1}

(* signed tokens with a well-formed payload *)
WellFormedCrafted(t) ==
    {CraftToken(S1, Payload(Device1, PyIso(t + o, TRUE), PyIso(t, TRUE))) :
        o \in CraftOffsets}

(* signed tokens whose payload is not what generate_token writes *)
MalformedCrafted(t) ==
    {CraftToken(S1, bytes) : bytes \in
        {json_dumps(PyDict([device_id |-> Device1, issued_at |-> PyIso(t, TRUE)])),
         json_dumps(PyDict([expires_at |-> PyIso(t + 3600, TRUE),
                            issued_at |-> PyIso(t, TRUE)])),
         Payload(Device1, PyIso(t + 3600, FALSE), PyIso(t, TRUE)),
         Payload(Device1, PyStr("soon"), PyIso(t, TRUE)),
         JsonBytes(JObj([device_id |-> JStr("device_1"), expires_at |-> JNum(5)])),
         JsonBytes(JNum(5)),
         JsonBytes(JArr),
         NotJsonBytes,
         NotUtf8Bytes}}

GoodToken(t) == CraftToken(S1, Payload(Device1, PyIso(t + 3600, TRUE), PyIso(t, TRUE)))

(* positions of the signature at which a character is replaced *)
EditPositions == {1, DigestLen}

(* the token with the character at position pos of its signature replaced  *)
(* by another one: an ASCII character that is not the separator, a          *)
(* character outside ASCII, or the separator                                *)
ReplaceSigChar(token, pos, ch) ==
    LET sig == token.parts[3] IN
    IF ch = "sep"
    THEN PyTok(<<token.parts[1], token.parts[2],
                 HexFrag(sig.key, sig.msg, 1, pos - 1),
                 HexFrag(sig.key, sig.msg, pos + 1, DigestLen)>>)
    ELSE PyTok(<<token.parts[1], token.parts[2],
                 HexSeg(sig.key, sig.msg, [pos |-> pos, ch |-> ch])>>)

SigMutations(token) ==
    {ReplaceSigChar(token, pos, ch) :
        pos \in EditPositions, ch \in {"ascii", "nonascii", "sep"}}

(* the token with its payload swapped for another one, signature kept *)
ForgedPayloads(token, t) ==
    {PyTok(<<token.parts[1], b64encode(bytes), token.parts[3]>>) : bytes \in
        {Payload(Device2, PyIso(t + 3600, TRUE), PyIso(t, TRUE)),
         Payload(Device1, PyIso(t - 3600, TRUE), PyIso(t, TRUE)),
         NotJsonBytes}}

OtherMutations(token) ==
    {PyTok(<<Lit("wrong"), token.parts[2], token.parts[3]>>),
     PyTok(<<Lit("wrong"), token.parts[2], Lit("signature")>>),
     PyTok(<<token.parts[1], token.parts[2], Lit("invalidsignature")>>),
     PyTok(token.parts \o <<Lit("extra")>>)}

GarbageTokens ==
    {PyNone, PyInt(5), EmptyTok,
     PyTok(<<Lit("invalid"), Lit("token")>>),
     PyTok(<<Lit("wrong"), Lit("payload"), Lit("signature")>>),
     PyTok(<<Lit(TOKEN_PREFIX), Lit("payload"), Lit("signature")>>)}

NoHeld == [token |-> PyNone, t0 |-> 0, secret |-> PyNone, via |-> "none"]

(* the token the caller works with: the one it holds, or a crafted one *)
BaseToken(h, t) == IF h = NoHeld THEN GoodToken(t) ELSE h.token

BaseTokens(h, t) == {GoodToken(t), BaseToken(h, t)}

TokenInputs(h, t) ==
    GarbageTokens \cup WellFormedCrafted(t) \cup MalformedCrafted(t)
    \cup BaseTokens(h, t)
    \cup SigMutations(BaseToken(h, t)) \cup ForgedPayloads(BaseToken(h, t), t)
    \cup OtherMutations(BaseToken(h, t))

DeviceInputs == {PyNone, PyStr(""), PyInt(5), Device1, Device2}

UpdaterOutcomes == {"true", "false", "TRMNLAPIError", "Exception"}

Msg(entry_id, device_id, image_url, token) ==
    [id |-> 125, entry_id |-> entry_id, device_id |-> device_id,
     image_url |-> image_url, token |-> token]

(* update_screenshot messages: every scope with a good request, every set   *)
(* of fields missing (None) or empty, every token for the good scope        *)
UpdateMsgs(h, t) ==
    {Msg(e, Device1, ImageUrl, tok) : e \in EntryIdInputs, tok \in BaseTokens(h, t)}
    \cup {Msg(IF "entry_id" \in absent THEN none ELSE PyStr(EntryOk),
               IF "device_id" \in absent THEN none ELSE Device1,
               IF "image_url" \in absent THEN none ELSE ImageUrl,
               IF "token" \in absent THEN none ELSE GoodToken(t)) :
            absent \in SUBSET {"entry_id", "device_id", "image_url", "token"},
            none \in {PyNone, PyStr("")}}
    \cup {Msg(PyStr(EntryOk), Device1, ImageUrl, tok) : tok \in TokenInputs(h, t)}
    \cup {Msg(PyStr(EntryOk), Device2, ImageUrl, tok) :
            tok \in BaseTokens(h, t) \cup ForgedPayloads(BaseToken(h, t), t)}

GenerateMsgs ==
    {[id |-> 124, entry_id |-> e, device_id |-> d] :
        e \in EntryIdInputs, d \in DeviceInputs}

-----------------------------------------------------------------------------
(* State machine *)

NoCall == [op |-> "none"]

Init ==
    /\ now = 0
    /\ hassData = [e \in HassEntries |->
                     [coordinator |-> e # "entry_nocoord", token_manager |-> NoManager]]
    /\ configEntries = [e \in HassEntries \ {"entry_noconfig"} |->
                          [token_secret |-> InitialSecret(e)]]
    /\ held = NoHeld
    /\ last = NoCall
    /\ pc = "idle"

(* expires_at of a token generate_token made *)
ExpiresAt(token) == token.parts[2].c.v.f.expires_at.iso

(* the instants, relative to the expiry of the held token, at which the     *)
(* clock is looked at                                                       *)
TickOffsets ==
    {-Hours(TOKEN_ROTATION_THRESHOLD_HOURS) - 1, -Hours(TOKEN_ROTATION_THRESHOLD_HOURS),
     -Hours(TOKEN_ROTATION_THRESHOLD_HOURS) + 1, -60, 0, 60}

(* time passes *)
Tick ==
    /\ pc = "idle"
    /\ held # NoHeld
    /\ \E o \in TickOffsets :
          /\ ExpiresAt(held.token) + o > now
          /\ ExpiresAt(held.token) + o <= MaxTime
          /\ now' = ExpiresAt(held.token) + o
    /\ UNCHANGED <<hassData, configEntries, held, last, pc>>

(* the config store replaces the token secret of an entry by another one,   *)
(* or removes it                                                            *)
ConfigEntryUpdated ==
    /\ pc = "idle"
    /\ configEntries[EntryOk].token_secret = S1
    /\ \E token_secret \in {S2, PyNone} :
          configEntries' = [configEntries EXCEPT ![EntryOk].token_secret = token_secret]
    /\ UNCHANGED <<now, hassData, held, last, pc>>

(* the second clock reading of a generate_token call that starts at t: the  *)
(* model lets the clock advance during a call that starts on a full minute  *)
ClockReadings(t) ==
    {t2 \in t..(t + MaxClockDrift) : t2 <= MaxTime /\ (t2 > t => t % 60 = 0)}

(* held is the token that the caller acting for device_1 holds: it keeps a  *)
(* token minted for device_1 or goes on with the one it has                 *)
Keep(token, t0, secret, via, keep) ==
    IF keep THEN [token |-> token, t0 |-> t0, secret |-> secret, via |-> via] ELSE held

(* the construction of a TokenManager *)
NewTokenManagerCall ==
    /\ pc = "idle"
    /\ \E token_secret \in SecretInputs :
          last' = [op |-> "TokenManager", token_secret |-> token_secret,
                   out |-> NewTokenManager(token_secret)]
    /\ pc' = "returned"
    /\ UNCHANGED <<now, hassData, configEntries, held>>

(* a direct call of TokenManager(secret).generate_token(device_id) *)
GenerateTokenCall ==
    /\ pc = "idle"
    /\ \E secret \in ManagerSecrets, device_id \in DeviceInputs,
          t2 \in ClockReadings(now), keep \in BOOLEAN :
          LET r == GenerateToken(secret, device_id, now, t2) IN
          /\ Raised(r) => t2 = now
          /\ keep => ~Raised(r) /\ device_id = Device1 /\ secret = S1
          /\ now' = t2
          /\ held' = IF Raised(r) THEN held ELSE Keep(r.val, now, secret, "manager", keep)
          /\ last' = [op |-> "generate_token", secret |-> secret,
                      device_id |-> device_id, t1 |-> now, t2 |-> t2, out |-> r]
    /\ pc' = "returned"
    /\ UNCHANGED <<hassData, configEntries>>

(* a direct call of TokenManager(secret).validate_token(token) *)
ValidateTokenCall ==
    /\ pc = "idle"
    /\ \E secret \in ManagerSecrets, token \in TokenInputs(held, now) :
          /\ secret # S1 => token \in BaseTokens(held, now)
          /\ last' = [op |-> "validate_token", secret |-> secret, token |-> token,
                   t |-> now, out |-> ValidateToken(secret, token, now)]
    /\ pc' = "returned"
    /\ UNCHANGED <<now, hassData, configEntries, held>>

(* a direct call of TokenManager(secret).should_rotate_token(token) *)
ShouldRotateTokenCall ==
    /\ pc = "idle"
    /\ \E token \in TokenInputs(held, now) :
          last' = [op |-> "should_rotate_token", secret |-> S1, token |-> token,
                   t |-> now, out |-> ShouldRotateToken(S1, token, now)]
    /\ pc' = "returned"
    /\ UNCHANGED <<now, hassData, configEntries, held>>

(* a direct call of TokenManager(secret).get_token_info(token) *)
GetTokenInfoCall ==
    /\ pc = "idle"
    /\ \E token \in TokenInputs(held, now) :
          last' = [op |-> "get_token_info", secret |-> S1, token |-> token,
                   t |-> now, out |-> GetTokenInfo(S1, token)]
    /\ pc' = "returned"
    /\ UNCHANGED <<now, hassData, configEntries, held>>

(* the generate_token command *)
WsGenerateToken ==
    /\ pc = "idle"
    /\ \E msg \in GenerateMsgs, t2 \in ClockReadings(now), keep \in BOOLEAN :
          LET r == HandleGenerateToken(hassData, configEntries, msg, now, t2) IN
          /\ r.token = PyNone => t2 = now
          /\ keep => r.token # PyNone /\ msg.device_id = Device1
          /\ now' = t2
          /\ hassData' = r.data
          /\ held' = IF r.token = PyNone THEN held ELSE Keep(r.token, now, r.tm, "command", keep)
          /\ last' = [op |-> "ws_generate_token", msg |-> msg, t1 |-> now, t2 |-> t2,
                      sent |-> r.sent, calls |-> r.calls, tm |-> r.tm,
                      cached |-> r.data # hassData]
    /\ pc' = "returned"
    /\ UNCHANGED configEntries

(* the update_screenshot command *)
WsUpdateScreenshot ==
    /\ pc = "idle"
    /\ \E msg \in UpdateMsgs(held, now), outcome \in UpdaterOutcomes :
          LET r == HandleUpdateScreenshot(hassData, configEntries, msg, now, outcome) IN
          /\ "async_update_screenshot" \notin {r.calls[i] : i \in DOMAIN r.calls}
                => outcome = "true"
          /\ hassData' = r.data
          /\ last' = [op |-> "ws_update_screenshot", msg |-> msg, t |-> now,
                      outcome |-> outcome, sent |-> r.sent, calls |-> r.calls,
                      tm |-> r.tm, cached |-> r.data # hassData,
                      forwarded |-> r.forwarded]
    /\ pc' = "returned"
    /\ UNCHANGED <<now, configEntries, held>>

(* the call is over: control is back in the event loop *)
ReturnToLoop ==
    /\ pc = "returned"
    /\ pc' = "idle"
    /\ last' = NoCall
    /\ UNCHANGED <<now, hassData, configEntries, held>>

Next ==
    \/ Tick
    \/ ConfigEntryUpdated
    \/ NewTokenManagerCall
    \/ GenerateTokenCall
    \/ ValidateTokenCall
    \/ ShouldRotateTokenCall
    \/ GetTokenInfoCall
    \/ WsGenerateToken
    \/ WsUpdateScreenshot
    \/ ReturnToLoop

Spec == Init /\ [][Next]_vars

-----------------------------------------------------------------------------
(* Properties *)

Called(name) == \E i \in DOMAIN last.calls : last.calls[i] = name

(* name is called, and after each of the calls in `before' *)
CalledAfter(name, before) ==
    \E i \in DOMAIN last.calls :
        /\ last.calls[i] = name
        /\ \A b \in before : \E j \in 1..(i - 1) : last.calls[j] = b

Accepted == Return(PyBool(TRUE))

Rejected(message) == Raise("InvalidTokenError", message)

(* the token has three parts, the prefix, a signature that verifies under   *)
(* the secret, and a payload with an expires_at that is an ISO timestamp    *)
(* with a UTC offset                                                        *)
SignedWellFormed(secret, token) ==
    /\ IsStr(token)
    /\ Len(token.parts) = 3
    /\ token.parts[1] = Lit(TOKEN_PREFIX)
    /\ token.parts[3] = HexSeg(HmacKey(secret.chars), token.parts[2], NoEdit)
    /\ token.parts[2].k = "b64"
    /\ token.parts[2].c.k = "json"
    /\ token.parts[2].c.v.j = "obj"
    /\ "expires_at" \in DOMAIN token.parts[2].c.v.f
    /\ "iso" \in DOMAIN token.parts[2].c.v.f.expires_at
    /\ token.parts[2].c.v.f.expires_at.aware

(* device_id written in the payload of a well-formed token, None if absent *)
PayloadDevice(token) ==
    IF "device_id" \in DOMAIN token.parts[2].c.v.f
    THEN FromJScalar(token.parts[2].c.v.f.device_id)
    ELSE PyNone

(* C1: the update_screenshot handler calls the Updater only after           *)
(* validate_token has returned true under the secret of the manager of the  *)
(* request's entry, at the time of the request, and after the device_id of  *)
(* get_token_info was compared with the request's; when validate_token      *)
(* does not return true, neither the comparison nor the Updater is reached. *)
C1_UpdaterOnlyAfterValidation ==
    last.op = "ws_update_screenshot" =>
        /\ Called("async_update_screenshot") =>
              /\ last.tm # NoManager
              /\ last.tm = hassData[last.msg.entry_id.s].token_manager
              /\ ValidateToken(last.tm, last.msg.token, last.t) = Accepted
              /\ CalledAfter("async_update_screenshot",
                             {"validate_token", "get_token_info", "compare_device_id"})
              /\ CalledAfter("compare_device_id", {"validate_token", "get_token_info"})
        /\ (last.tm = NoManager
             \/ ValidateToken(last.tm, last.msg.token, last.t) # Accepted) =>
              /\ ~Called("get_token_info")
              /\ ~Called("compare_device_id")
              /\ ~Called("async_update_screenshot")

C1_Witness ==
    /\ last.op = "ws_update_screenshot"
    /\ Called("async_update_screenshot")
    /\ held # NoHeld
    /\ last.msg.token = held.token

(* C2: a valid, unexpired token whose payload names another device than the *)
(* request is answered with the error unauthorized, and the Updater is not  *)
(* called.                                                                  *)
C2_OtherDeviceUnauthorized ==
    (/\ last.op = "ws_update_screenshot"
     /\ last.tm # NoManager
     /\ SignedWellFormed(last.tm, last.msg.token)
     /\ ValidateToken(last.tm, last.msg.token, last.t) = Accepted
     /\ PayloadDevice(last.msg.token) # last.msg.device_id)
    => /\ Len(last.sent) = 1
       /\ last.sent[1].kind = "error"
       /\ last.sent[1].code = "unauthorized"
       /\ ~Called("async_update_screenshot")

C2_Witness ==
    /\ last.op = "ws_update_screenshot"
    /\ held # NoHeld
    /\ last.msg.token = held.token
    /\ last.tm = held.secret
    /\ last.t < ExpiresAt(held.token)
    /\ PayloadDevice(held.token) = Device1
    /\ last.msg.device_id = Device2
    /\ last.sent[1].kind = "error"

(* C3: a token that generate_token has just returned for a non-empty string *)
(* device_id is accepted by validate_token of a manager with the same       *)
(* secret, at the clock reading that follows the generation and at every    *)
(* later call before the token's expires_at.                                *)
C3_GeneratedTokenValidates ==
    /\ (last.op = "generate_token" /\ ~Raised(last.out)) =>
          ValidateToken(last.secret, last.out.val, now) = Accepted
    /\ (/\ last.op = "validate_token"
         /\ held # NoHeld
         /\ last.token = held.token
         /\ last.secret = held.secret
         /\ last.t < ExpiresAt(held.token)) => last.out = Accepted

C3_Witness ==
    /\ last.op = "validate_token"
    /\ held # NoHeld
    /\ last.token = held.token
    /\ last.secret = held.secret
    /\ last.t = held.t0
    /\ last.out = Accepted

(* C4: for a token with three parts, the prefix, a signature that verifies  *)
(* under the manager's secret and a well-formed payload, validate_token     *)
(* returns true when the clock is before expires_at, and raises             *)
(* InvalidTokenError "Token has expired" when the clock is at or after it.  *)
C4_ValidIffBeforeExpiry ==
    (last.op = "validate_token" /\ SignedWellFormed(last.secret, last.token)) =>
        IF last.t < ExpiresAt(last.token)
        THEN last.out = Accepted
        ELSE last.out = Rejected("Token has expired")

C4_Witness ==
    /\ last.op = "validate_token"
    /\ SignedWellFormed(last.secret, last.token)
    /\ last.t = ExpiresAt(last.token)
    /\ last.out = Rejected("Token has expired")

(* C5: a token generated at clock time T0 starts with the prefix, is        *)
(* accepted by validate_token at T0 + 23h59m and is rejected as expired at  *)
(* T0 + 24h01m, the passing of time being all that happens to it.           *)
C5_LifetimeScenario ==
    (/\ last.op = "validate_token"
     /\ held # NoHeld
     /\ last.token = held.token
     /\ last.secret = held.secret) =>
        /\ held.token.parts[1] = Lit("token")
        /\ last.t = held.t0 + 23 * 3600 + 59 * 60 => last.out = Accepted
        /\ last.t = held.t0 + 24 * 3600 + 60 => last.out = Rejected("Token has expired")

C5_Witness ==
    /\ last.op = "validate_token"
    /\ held # NoHeld
    /\ last.token = held.token
    /\ last.secret = held.secret
    /\ last.t = held.t0 + 24 * 3600 + 60
    /\ last.out = Rejected("Token has expired")

(* the tokens obtained from token by replacing one signature character *)
SigCharReplaced(token) ==
    IF SignedWellFormed(S1, token) THEN SigMutations(token) ELSE {}

(* C6: when one character of the signature of a valid token is replaced by *)
(* a different character, validate_token raises InvalidTokenError "Invalid  *)
(* token signature", and nothing else.                                      *)
C6_SigCharReplacedRejected ==
    (/\ last.op = "validate_token"
     /\ \E base \in BaseTokens(held, last.t) :
           /\ ValidateToken(last.secret, base, last.t) = Accepted
           /\ last.token \in SigCharReplaced(base)) =>
        last.out = Rejected("Invalid token signature")

(* the signature of a valid token with a non-ASCII character in it: the     *)
(* TypeError of hmac.compare_digest leaves validate_token                   *)
C6_TypeErrorEscapes ==
    /\ last.op = "validate_token"
    /\ last.secret = S1
    /\ ValidateToken(S1, BaseToken(held, last.t), last.t) = Accepted
    /\ last.token = ReplaceSigChar(BaseToken(held, last.t), 1, "nonascii")
    /\ last.out.exc = "TypeError"

(* C7: a token generated by a manager with secret S1 is accepted by         *)
(* validate_token of a manager with any other secret S2 never: it raises    *)
(* InvalidTokenError "Invalid token signature" at every time.               *)
C7_OtherSecretRejected ==
    (/\ last.op = "validate_token"
     /\ held # NoHeld
     /\ last.token = held.token
     /\ last.secret # held.secret) =>
        last.out = Rejected("Invalid token signature")

(* C7 amended: a token generated with secret S1 is rejected with "Invalid   *)
(* token signature" by every manager whose secret gives another HMAC key    *)
(* than S1 (the UTF-8 bytes of the secret, hashed when longer than the      *)
(* block, zero-padded to the block otherwise); a manager whose secret gives *)
(* the same key, such as S1 followed by NUL characters, treats the token as *)
(* the generating manager does.                                             *)
C7_OtherKeyRejected ==
    (/\ last.op = "validate_token"
     /\ held # NoHeld
     /\ last.token = held.token) =>
        IF HmacKey(last.secret.chars) # HmacKey(held.secret.chars)
        THEN last.out = Rejected("Invalid token signature")
        ELSE last.out = ValidateToken(held.secret, held.token, last.t)

C7_Witness ==
    /\ last.op = "validate_token"
    /\ held # NoHeld
    /\ last.token = held.token
    /\ held.secret = S1
    /\ last.secret = S2
    /\ last.t < ExpiresAt(held.token)
    /\ last.out = Rejected("Invalid token signature")

(* the response of handle_update_screenshot to the same request carrying    *)
(* the token "invalid_token"                                                *)
ReferenceRejection(tm, msg, t) ==
    Authorize(tm, [msg EXCEPT !.token = PyTok(<<Lit("invalid"), Lit("token")>>)], t).sent

(* C8: when validate_token raises InvalidTokenError in the update handler,  *)
(* the response is the error unauthorized and is the same, code and         *)
(* message, whatever the reason: it equals the response to the same request *)
(* with another invalid token.                                              *)
C8_RejectionIsOpaque ==
    (/\ last.op = "ws_update_screenshot"
     /\ last.tm # NoManager
     /\ ValidateToken(last.tm, last.msg.token, last.t).exc = "InvalidTokenError") =>
        /\ Len(last.sent) = 1
        /\ last.sent[1].kind = "error"
        /\ last.sent[1].code = "unauthorized"
        /\ last.sent = ReferenceRejection(last.tm, last.msg, last.t)

(* a rejected token gets the code unauthorized, with the reason as message *)
C8_ReasonDisclosed ==
    /\ last.op = "ws_update_screenshot"
    /\ last.tm # NoManager
    /\ ValidateToken(last.tm, last.msg.token, last.t) = Rejected("Token has expired")
    /\ last.sent = <<SendError(last.msg.id, "unauthorized", "Token has expired")>>
    /\ last.sent # ReferenceRejection(last.tm, last.msg, last.t)

(* C9: an update_screenshot request in which entry_id, device_id, image_url *)
(* or token is missing or empty is answered with the one error              *)
(* invalid_format, and nothing else is done: no coordinator or manager is   *)
(* looked up, none is created or cached, validate_token and the Updater are *)
(* not called.                                                              *)
C9_MissingFieldNoWork ==
    (/\ last.op = "ws_update_screenshot"
     /\ \/ ~Truthy(last.msg.entry_id)
        \/ ~Truthy(last.msg.device_id)
        \/ ~Truthy(last.msg.image_url)
        \/ ~Truthy(last.msg.token)) =>
        /\ Len(last.sent) = 1
        /\ last.sent[1].kind = "error"
        /\ last.sent[1].code = "invalid_format"
        /\ last.calls = <<>>
        /\ last.tm = NoManager
        /\ ~last.cached

C9_Witness ==
    /\ last.op = "ws_update_screenshot"
    /\ last.msg.entry_id = PyStr(EntryOk)
    /\ last.msg.device_id = Device1
    /\ last.msg.image_url = ImageUrl
    /\ last.msg.token \in {PyNone, EmptyTok}
    /\ hassData[EntryOk].token_manager = NoManager
    /\ last.sent[1].code = "invalid_format"

(* a command of the WebSocket API was handled and its required fields were  *)
(* all present                                                              *)
RequiredPresent ==
    \/ last.op = "ws_generate_token"
          /\ Truthy(last.msg.entry_id) /\ Truthy(last.msg.device_id)
    \/ last.op = "ws_update_screenshot" /\ AllRequired(last.msg)

(* the config store holds a token secret for the entry *)
HasSecret(entries, entry_id) ==
    /\ IsStr(entry_id)
    /\ entry_id.s \in DOMAIN entries
    /\ Truthy(entries[entry_id.s].token_secret)

(* the integration's data holds a coordinator for the entry *)
HasCoordinator(data, entry_id) ==
    /\ IsStr(entry_id)
    /\ entry_id.s \in DOMAIN data
    /\ data[entry_id.s].coordinator

(* a manager is cached for the entry, or the config store holds a non-empty *)
(* string as its token secret                                               *)
HasManagerOrSecret(data, entries, entry_id) ==
    \/ data[entry_id.s].token_manager # NoManager
    \/ /\ HasSecret(entries, entry_id)
       /\ IsStr(entries[entry_id.s].token_secret)

OneError(code) ==
    /\ Len(last.sent) = 1
    /\ last.sent[1].kind = "error"
    /\ last.sent[1].code = code

CallCount(name) == Cardinality({i \in DOMAIN last.calls : last.calls[i] = name})

OneResult ==
    /\ Len(last.sent) = 1
    /\ last.sent[1].kind = "result"

(* C11: when the Updater raises an exception, of whatever type, after the   *)
(* token was authorized, the update handler answers with the one result     *)
(* {success: false, message}, never with an error response.                 *)
C11_UpdaterExceptionIsResult ==
    (/\ last.op = "ws_update_screenshot"
     /\ Called("async_update_screenshot")
     /\ last.outcome \in {"TRMNLAPIError", "Exception"}) =>
        /\ OneResult
        /\ last.sent[1].result.success = FALSE

(* an exception of the Updater that is not a TRMNLAPIError is answered      *)
(* internal_error                                                           *)
C11_ExceptionIsInternalError ==
    /\ last.op = "ws_update_screenshot"
    /\ Called("async_update_screenshot")
    /\ last.outcome = "Exception"
    /\ OneError("internal_error")

(* C12: when the Updater returns a boolean for an authorized token, the     *)
(* update handler answers with one result: success true and the success     *)
(* message for True, success false and the failure message for False;       *)
(* False is never answered with an error.                                   *)
C12_BooleanRelayed ==
    (/\ last.op = "ws_update_screenshot"
     /\ Called("async_update_screenshot")
     /\ last.outcome \in {"true", "false"}) =>
        /\ OneResult
        /\ last.sent[1].id = last.msg.id
        /\ last.sent[1].result.success = (last.outcome = "true")
        /\ last.sent[1].result.message =
              IF last.outcome = "true" THEN "Screenshot updated successfully"
              ELSE "Failed to update screenshot"

C12_Witness ==
    /\ last.op = "ws_update_screenshot"
    /\ Called("async_update_screenshot")
    /\ last.outcome = "false"
    /\ OneResult
    /\ last.sent[1].result.success = FALSE

(* the caller presents the token the generate_token command returned to it, *)
(* before its expiry, for the entry and the device it was minted for, with  *)
(* an image_url                                                             *)
PresentsIssuedToken ==
    /\ last.op = "ws_update_screenshot"
    /\ held.via = "command"
    /\ last.msg.token = held.token
    /\ last.msg.entry_id = PyStr(EntryOk)
    /\ last.msg.device_id = PayloadDevice(held.token)
    /\ Truthy(last.msg.image_url)
    /\ last.t < ExpiresAt(held.token)

(* C13: a token returned by the generate_token command, presented before    *)
(* its expiry to update_screenshot for the same entry and device with a     *)
(* non-empty image_url, is authorized: the Updater is called exactly once,  *)
(* with the device_id and image_url of the request, and the answer is a     *)
(* result, not an error.                                                    *)
C13_IssuedTokenAuthorized ==
    PresentsIssuedToken =>
        /\ CallCount("async_update_screenshot") = 1
        /\ last.forwarded.device_id = last.msg.device_id
        /\ last.forwarded.image_url = last.msg.image_url
        /\ OneResult

(* the issued token is authorized, the Updater is called once with the      *)
(* request's arguments and raises: the answer is an error                   *)
C13_AuthorizedButError ==
    /\ PresentsIssuedToken
    /\ CallCount("async_update_screenshot") = 1
    /\ last.forwarded.device_id = Device1
    /\ last.forwarded.image_url = ImageUrl
    /\ last.outcome = "Exception"
    /\ OneError("internal_error")

(* C14: a generate_token command that succeeds answers {token, expires_at}: *)
(* the token is the one generate_token of the entry's manager produced for  *)
(* the device_id of the request, and expires_at is the expires_at written   *)
(* in the payload of that token.                                            *)
C14_ReturnsTokenAndItsExpiry ==
    (last.op = "ws_generate_token" /\ OneResult) =>
        /\ last.tm # NoManager
        /\ last.tm = hassData[last.msg.entry_id.s].token_manager
        /\ DOMAIN last.sent[1].result = {"token", "expires_at"}
        /\ last.sent[1].result.token =
              GenerateToken(last.tm, last.msg.device_id, last.t1, last.t2).val
        /\ SignedWellFormed(last.tm, last.sent[1].result.token)
        /\ PayloadDevice(last.sent[1].result.token) = last.msg.device_id
        /\ last.sent[1].result.expires_at =
              FromJScalar(last.sent[1].result.token.parts[2].c.v.f.expires_at)

C14_Witness ==
    /\ last.op = "ws_generate_token"
    /\ OneResult
    /\ last.msg.device_id = Device2
    /\ last.t2 # last.t1
    /\ last.sent[1].result.expires_at = PyIso(last.t1 + Hours(TOKEN_TTL_HOURS), TRUE)

(* a token of three parts whose payload decodes to a JSON object with an    *)
(* expires_at that is an ISO timestamp with a UTC offset                    *)
ParseablePayload(token) ==
    /\ IsStr(token)
    /\ Len(token.parts) = 3
    /\ token.parts[2].k = "b64"
    /\ token.parts[2].c.k = "json"
    /\ token.parts[2].c.v.j = "obj"
    /\ "expires_at" \in DOMAIN token.parts[2].c.v.f
    /\ "iso" \in DOMAIN token.parts[2].c.v.f.expires_at
    /\ token.parts[2].c.v.f.expires_at.aware

(* C15: for a token with a parseable payload, should_rotate_token returns   *)
(* true exactly when expires_at - now is at most 6 hours: true with 6 hours *)
(* left and with 6 hours less a second, false with 6 hours and a second.    *)
C15_RotateIffWithinThreshold ==
    (last.op = "should_rotate_token" /\ ParseablePayload(last.token)) =>
        /\ last.out = Return(PyBool(ExpiresAt(last.token) - last.t <= 6 * 3600))
        /\ ExpiresAt(last.token) - last.t \in {6 * 3600 - 1, 6 * 3600}
              => last.out = Return(PyBool(TRUE))
        /\ ExpiresAt(last.token) - last.t = 6 * 3600 + 1
              => last.out = Return(PyBool(FALSE))

C15_Witness ==
    /\ last.op = "should_rotate_token"
    /\ ParseablePayload(last.token)
    /\ ExpiresAt(last.token) - last.t = 6 * 3600
    /\ last.out = Return(PyBool(TRUE))

(* C16: a token generated by a manager for a device_id differs from the     *)
(* token the same manager generated for the same device_id at another       *)
(* clock instant.                                                           *)
C16_TokensOfDifferentInstantsDiffer ==
    (/\ last.op = "generate_token"
     /\ ~Raised(last.out)
     /\ held # NoHeld
     /\ last.secret = held.secret
     /\ last.device_id = PayloadDevice(held.token)
     /\ last.t1 # held.t0) =>
        last.out.val # held.token

C16_Witness ==
    /\ last.op = "generate_token"
    /\ ~Raised(last.out)
    /\ held # NoHeld
    /\ last.secret = held.secret
    /\ last.device_id = PayloadDevice(held.token)
    /\ last.t1 = held.t0 + 1
    /\ last.out.val # held.token

(* C17: for a token generate_token returned for a non-empty string          *)
(* device_id, get_token_info returns a dict with exactly the keys           *)
(* device_id, issued_at and expires_at, and its device_id is the one the    *)
(* token was generated for.                                                 *)
C17_InfoOfGeneratedToken ==
    /\ (last.op = "generate_token" /\ ~Raised(last.out)) =>
          LET info == GetTokenInfo(last.secret, last.out.val) IN
          /\ ~Raised(info)
          /\ info.val.py = "dict"
          /\ DOMAIN info.val.f = {"device_id", "issued_at", "expires_at"}
          /\ info.val.f.device_id = last.device_id
    /\ (last.op = "get_token_info" /\ held # NoHeld /\ last.token = held.token) =>
          /\ ~Raised(last.out)
          /\ DOMAIN last.out.val.f = {"device_id", "issued_at", "expires_at"}
          /\ last.out.val.f.device_id = Device1

C17_Witness ==
    /\ last.op = "get_token_info"
    /\ held # NoHeld
    /\ last.token = held.token
    /\ ~Raised(last.out)
    /\ last.out.val.f.device_id = Device1
    /\ last.out.val.f.expires_at = PyIso(held.t0 + 24 * 3600, TRUE)

(* C18: generate_token with a device_id that is None, empty or not a string *)
(* raises ValueError and returns no token; a generate_token command whose   *)
(* entry_id or device_id is missing or empty is answered with the one error *)
(* invalid_format, and so is one whose device_id is not a string.           *)
C18_InvalidDeviceIdRejected ==
    /\ (last.op = "generate_token" /\ ~(IsStr(last.device_id) /\ Truthy(last.device_id))) =>
          /\ last.out.exc = "ValueError"
          /\ last.out.val = PyNone
    /\ (/\ last.op = "ws_generate_token"
         /\ (~Truthy(last.msg.entry_id) \/ ~Truthy(last.msg.device_id))) =>
          /\ OneError("invalid_format")
          /\ last.calls = <<>>
    /\ (/\ last.op = "ws_generate_token"
         /\ last.tm # NoManager
         /\ ~IsStr(last.msg.device_id)) =>
          OneError("invalid_format")

C18_Witness ==
    /\ last.op = "ws_generate_token"
    /\ last.msg.entry_id = PyStr(EntryOk)
    /\ last.msg.device_id = PyStr("")
    /\ OneError("invalid_format")

(* C19: whatever the token, validate_token, should_rotate_token and         *)
(* get_token_info return their value or raise InvalidTokenError: no other   *)
(* exception leaves the TokenManager.                                       *)
C19_OnlyInvalidTokenError ==
    last.op \in {"validate_token", "should_rotate_token", "get_token_info"} =>
        last.out.exc \in {"none", "InvalidTokenError"}

(* should_rotate_token on a token whose payload is a JSON array raises      *)
(* TypeError                                                                *)
C19_TypeErrorEscapes ==
    /\ last.op = "should_rotate_token"
    /\ IsStr(last.token)
    /\ Len(last.token.parts) = 3
    /\ last.token.parts[2] = b64encode(JsonBytes(JArr))
    /\ last.out.exc = "TypeError"

(* the manager cached for the entry accepts the held token at time t *)
GateAccepts(data, t) ==
    /\ data[EntryOk].token_manager # NoManager
    /\ ValidateToken(data[EntryOk].token_manager, held.token, t) = Accepted

(* C20: no step revokes an issued token: if the token the caller holds is   *)
(* accepted by validate_token under its secret, and by the manager the      *)
(* entry uses, before a step that leaves the clock before the token's       *)
(* expires_at, it is accepted after the step as well, whatever the step is  *)
(* (a TokenManager call, a command, a newer token minted, a change of the   *)
(* config entry's secret).                                                  *)
C20_NoRevocation ==
    [][(/\ held # NoHeld
        /\ held' = held
        /\ now' < ExpiresAt(held.token))
       => /\ ValidateToken(held.secret, held.token, now) = Accepted
               => ValidateToken(held.secret, held.token, now') = Accepted
          /\ GateAccepts(hassData, now) => GateAccepts(hassData', now')]_vars

C20_Witness ==
    /\ last.op = "ws_update_screenshot"
    /\ held.via = "command"
    /\ last.msg.token = held.token
    /\ last.t > held.t0 + 3600
    /\ configEntries[EntryOk].token_secret # held.secret
    /\ last.tm = held.secret
    /\ Called("async_update_screenshot")

(* the command of `last' names an entry of the config store whose           *)
(* token_secret is empty or absent                                          *)
StoredSecretEmpty ==
    /\ last.op \in {"ws_generate_token", "ws_update_screenshot"}
    /\ IsStr(last.msg.entry_id)
    /\ last.msg.entry_id.s \in DOMAIN configEntries
    /\ ~Truthy(configEntries[last.msg.entry_id.s].token_secret)

(* C21: TokenManager(token_secret) with an empty, None or non-string        *)
(* token_secret raises ValueError and yields no manager; a command on an    *)
(* entry whose stored token secret is empty or absent gets no token         *)
(* manager; and no command ever works with a manager of an empty secret.    *)
C21_EmptySecretNoManager ==
    /\ (/\ last.op = "TokenManager"
        /\ (~Truthy(last.token_secret) \/ ~IsStr(last.token_secret))) =>
          last.out = Raise("ValueError", "token_secret must be a non-empty string")
    /\ StoredSecretEmpty => last.tm = NoManager
    /\ last.op \in {"ws_generate_token", "ws_update_screenshot"} =>
          (last.tm = NoManager \/ (IsStr(last.tm) /\ Truthy(last.tm)))

(* a command on an entry whose stored secret has been removed is served by  *)
(* the manager cached in hass.data before the removal                       *)
C21_CachedManagerServes ==
    /\ StoredSecretEmpty
    /\ last.msg.entry_id = PyStr(EntryOk)
    /\ last.op = "ws_generate_token"
    /\ last.tm = S1
    /\ Len(last.sent) = 1
    /\ last.sent[1].kind = "result"

(* the failure reason of an outcome: every InvalidTokenError message that   *)
(* is not the prefix, signature or expiry one is a format message           *)
Reason(out) ==
    CASE out.exc # "InvalidTokenError" -> "none"
      [] out.msg = "Invalid token prefix" -> "prefix"
      [] out.msg = "Invalid token signature" -> "signature"
      [] out.msg = "Token has expired" -> "expired"
      [] OTHER -> "format"

(* the first of the six checks of validate_token that the token fails at    *)
(* time t under the secret, 0 if it passes them all                         *)
FirstFailingCheck(secret, token, t) ==
    CASE ~(IsStr(token) /\ Truthy(token)) -> 1
      [] Len(token.parts) # 3 -> 2
      [] token.parts[1] # Lit(TOKEN_PREFIX) -> 3
      [] token.parts[3] # HexSeg(HmacKey(secret.chars), token.parts[2], NoEdit) -> 4
      [] ~ParseablePayload(token) -> 5
      [] t >= ExpiresAt(token) -> 6
      [] OTHER -> 0

SignatureFails ==
    /\ IsStr(last.token)
    /\ Len(last.token.parts) = 3
    /\ last.token.parts[1] = Lit(TOKEN_PREFIX)
    /\ last.token.parts[3] # GenerateSignature(last.secret, last.token.parts[2])

(* C23: validate_token on a three-part token with the prefix whose          *)
(* signature does not verify raises InvalidTokenError "Invalid token        *)
(* signature", whatever the payload segment holds (expired, unexpired,      *)
(* malformed, another device): the payload is not read.                     *)
C23_UnverifiedPayloadNotRead ==
    (last.op = "validate_token" /\ SignatureFails) =>
        last.out = Rejected("Invalid token signature")

(* a token whose payload is expired and whose signature has a non-ASCII     *)
(* character leaves validate_token with a TypeError                         *)
C23_OutcomeNotSignatureError ==
    /\ last.op = "validate_token"
    /\ SignatureFails
    /\ ~IsAscii(last.token.parts[3])
    /\ ParseablePayload(last.token)
    /\ last.t >= ExpiresAt(last.token)
    /\ last.out.exc = "TypeError"
    /\ Reason(last.out) = "none"

(* issued_at written in the payload of a generated token *)
IssuedAt(token) == token.parts[2].c.v.f.issued_at.iso

(* C24: in every token that generate_token returns, expires_at is           *)
(* issued_at plus the 24 hours of TOKEN_TTL_HOURS exactly, also when the     *)
(* clock advances while generate_token runs.                                *)
C24_ExpiresAtIsIssuedAtPlusTtl ==
    (last.op = "generate_token" /\ ~Raised(last.out)) =>
        ExpiresAt(last.out.val) = IssuedAt(last.out.val) + Hours(TOKEN_TTL_HOURS)

(* the clock advances between the two readings of generate_token:           *)
(* expires_at is taken from the first, issued_at from the second            *)
C24_LifetimeShorterThanTtl ==
    /\ last.op = "generate_token"
    /\ ~Raised(last.out)
    /\ last.t2 > last.t1
    /\ ExpiresAt(last.out.val) = last.t1 + Hours(TOKEN_TTL_HOURS)
    /\ IssuedAt(last.out.val) = last.t2
    /\ ExpiresAt(last.out.val) - IssuedAt(last.out.val) < Hours(TOKEN_TTL_HOURS)

(* the number of separator characters in the text of a segment: none in     *)
(* base64 text (A-Z, a-z, 0-9, +, /, =) and in hex digits; in a literal,    *)
(* those of the literal                                                     *)
SeparatorCount(seg) ==
    CASE seg.k = "lit" -> IF seg.s \in {Device1.s, Device2.s} THEN 1 ELSE 0
      [] OTHER -> 0

(* C25: every token that generate_token returns, for every non-empty str    *)
(* device_id (device_1 and device_2 contain the separator), is made of      *)
(* exactly three separator-delimited parts, none of them holding a          *)
(* separator: the literal "token", the base64 text of the payload with the  *)
(* device_id in it, and the hex HMAC of that base64 text under the          *)
(* manager's secret.                                                        *)
C25_ThreeParts ==
    (last.op = "generate_token" /\ ~Raised(last.out)) =>
        LET parts == last.out.val.parts IN
        /\ Len(parts) = 3
        /\ \A i \in DOMAIN parts : SeparatorCount(parts[i]) = 0
        /\ parts[1] = Lit("token")
        /\ parts[2].k = "b64"
        /\ PayloadDevice(last.out.val) = last.device_id
        /\ parts[3] = HexSeg(HmacKey(last.secret.chars), parts[2], NoEdit)

C25_Witness ==
    /\ last.op = "generate_token"
    /\ last.device_id = Device2
    /\ last.secret = S2
    /\ ~Raised(last.out)
    /\ Len(last.out.val.parts) = 3
    /\ last.out.val.parts[3].key = HmacKey(S2.chars)

(* the token secret the config store holds for the entry of the command of  *)
(* `last', None if it holds none                                            *)
StoredSecret ==
    IF IsStr(last.msg.entry_id) /\ last.msg.entry_id.s \in DOMAIN configEntries
    THEN configEntries[last.msg.entry_id.s].token_secret
    ELSE PyNone

(* C26: no manager is kept from one command to the next: a command that     *)
(* works with a manager works with one of the secret the config store       *)
(* holds at the time of the command, so that once the stored secret has     *)
(* changed a new token is signed under the new secret and a token signed    *)
(* under the old one is not forwarded to the Updater.                       *)
C26_CommandsUseStoredSecret ==
    /\ (last.op \in {"ws_generate_token", "ws_update_screenshot"} /\ last.tm # NoManager) =>
          last.tm = StoredSecret
    /\ (last.op = "ws_generate_token" /\ Len(last.sent) = 1 /\ last.sent[1].kind = "result") =>
          /\ Truthy(StoredSecret)
          /\ SignedWellFormed(StoredSecret, last.sent[1].result.token)
    /\ (last.op = "ws_update_screenshot" /\ Called("async_update_screenshot")) =>
          /\ Truthy(StoredSecret)
          /\ ValidateToken(StoredSecret, last.msg.token, last.t) = Accepted

(* after the stored secret of the entry has changed, generate_token         *)
(* answers with a token signed under the secret of the cached manager       *)
C26_SignedUnderReplacedSecret ==
    /\ last.op = "ws_generate_token"
    /\ last.msg.entry_id = PyStr(EntryOk)
    /\ StoredSecret = S2
    /\ last.tm = S1
    /\ ~last.cached
    /\ Len(last.sent) = 1
    /\ last.sent[1].kind = "result"
    /\ SignedWellFormed(S1, last.sent[1].result.token)
    /\ ValidateToken(S2, last.sent[1].result.token, now) = Rejected("Invalid token signature")

(* C27: should_rotate_token verifies neither the signature nor the prefix   *)
(* nor the expiry: on a three-part token whose payload decodes to an        *)
(* object with an ISO expires_at, it returns whether expires_at is at most  *)
(* 6 hours after the clock reading, and nothing else of the token decides   *)
(* (a boolean for a forged token, true for an expired one); and the only    *)
(* InvalidTokenError reason it raises, on any token, is format.             *)
C27_RotationReadsOnlyExpiry ==
    last.op = "should_rotate_token" =>
        /\ ParseablePayload(last.token) =>
              /\ last.out = Return(PyBool(ExpiresAt(last.token)
                                <= last.t + Hours(TOKEN_ROTATION_THRESHOLD_HOURS)))
              /\ last.t >= ExpiresAt(last.token) => last.out = Return(PyBool(TRUE))
              /\ \A token \in TokenInputs(held, last.t) :
                    (ParseablePayload(token) /\ ExpiresAt(token) = ExpiresAt(last.token))
                        => ShouldRotateToken(last.secret, token, last.t) = last.out
        /\ Reason(last.out) \in {"none", "format"}

(* an expired token with a payload its signature does not cover: true *)
C27_Witness ==
    /\ last.op = "should_rotate_token"
    /\ ParseablePayload(last.token)
    /\ last.token.parts[3] # GenerateSignature(last.secret, last.token.parts[2])
    /\ last.t >= ExpiresAt(last.token)
    /\ last.out = Return(PyBool(TRUE))

TokenManagerOps == {"generate_token", "validate_token", "should_rotate_token", "get_token_info"}

(* the outcome of the TokenManager call of `last' is the one its secret,    *)
(* its arguments and its clock readings give, whatever was called before    *)
OutcomeAsAlone ==
    /\ last.op = "generate_token" =>
          IF ~Truthy(last.device_id) \/ ~IsStr(last.device_id)
          THEN last.out = Raise("ValueError", "device_id must be a non-empty string")
          ELSE /\ ~Raised(last.out)
               /\ SignedWellFormed(last.secret, last.out.val)
               /\ PayloadDevice(last.out.val) = last.device_id
               /\ ExpiresAt(last.out.val) = last.t1 + Hours(TOKEN_TTL_HOURS)
               /\ IssuedAt(last.out.val) = last.t2
    /\ last.op = "validate_token" =>
          (last.out = Accepted
              <=> FirstFailingCheck(last.secret, last.token, last.t) = 0)
    /\ (last.op = "should_rotate_token" /\ ParseablePayload(last.token)) =>
          last.out = Return(PyBool(ExpiresAt(last.token)
                            <= last.t + Hours(TOKEN_ROTATION_THRESHOLD_HOURS)))
    /\ (last.op = "get_token_info" /\ ParseablePayload(last.token)) =>
          /\ ~Raised(last.out)
          /\ last.out.val.f.expires_at = FromJScalar(last.token.parts[2].c.v.f.expires_at)

C29_ExactlyOneResponse ==
    last.op \in {"ws_generate_token", "ws_update_screenshot"} =>
        /\ Len(last.sent) = 1
        /\ last.sent[1].kind \in {"result", "error"}
        /\ last.sent[1].id = last.msg.id

(* the Updater raises an exception of its own: one result, and no error     *)
C29_Witness ==
    /\ last.op = "ws_update_screenshot"
    /\ last.outcome = "TRMNLAPIError"
    /\ CallCount("async_update_screenshot") = 1
    /\ last.sent = <<SendResult(last.msg.id,
                                [success |-> FALSE, message |-> "API error: failed"])>>

(* instants of the 6 hours that follow a clock reading *)
MarginSamples ==
    {0, 1, 3600, Hours(TOKEN_ROTATION_THRESHOLD_HOURS) - 1,
     Hours(TOKEN_ROTATION_THRESHOLD_HOURS)}

(* C30: for the token generate_token produced at T0 (the clock reading its  *)
(* expires_at is computed from), should_rotate_token is false right after   *)
(* the generation and at every reading before T0 + 18h, and true at every   *)
(* reading from T0 + 18h on, so that on a clock that does not go back it    *)
(* never returns false after true; and whenever should_rotate_token         *)
(* returns false for a token with the prefix and a signature that           *)
(* verifies, validate_token accepts the token at that reading and           *)
(* throughout the 6 hours after it.                                         *)
C30_RotationWindow ==
    /\ (last.op = "generate_token" /\ ~Raised(last.out)) =>
          /\ now >= last.t1
          /\ ShouldRotateToken(last.secret, last.out.val, now) = Return(PyBool(FALSE))
    /\ (last.op = "should_rotate_token" /\ held # NoHeld /\ last.token = held.token) =>
          /\ last.t >= held.t0
          /\ last.out = Return(PyBool(last.t >= held.t0 + Hours(TOKEN_TTL_HOURS)
                                                  - Hours(TOKEN_ROTATION_THRESHOLD_HOURS)))
          /\ last.t < held.t0 + 18 * 3600 => last.out = Return(PyBool(FALSE))
    /\ (/\ last.op = "should_rotate_token"
        /\ last.out = Return(PyBool(FALSE))
        /\ SignedWellFormed(last.secret, last.token)) =>
          \A d \in MarginSamples :
              ValidateToken(last.secret, last.token, last.t + d) = Accepted

(* one second before 6 hours remain: no rotation yet for the held token,    *)
(* which stays valid until 6 hours later                                    *)
C30_Witness ==
    /\ last.op = "should_rotate_token"
    /\ held # NoHeld
    /\ last.token = held.token
    /\ last.t = held.t0 + 18 * 3600 - 1
    /\ last.out = Return(PyBool(FALSE))
    /\ ValidateToken(held.secret, held.token, last.t + 6 * 3600) = Accepted
    /\ ValidateToken(held.secret, held.token, last.t + 6 * 3600 + 1) = Rejected("Token has expired")

=============================================================================
